---- MODULE Spec2Model ----
(***************************************************************************)
(* epub-summarize: main() of src/esum/__main__.py and of src/main.py.      *)
(*                                                                         *)
(* One run of the program is a sequential process whose position is pc.    *)
(* Text is a sequence of tokens; a JSON document inside a model response   *)
(* is one token carrying the value it denotes, so that json.loads succeeds *)
(* exactly on optional whitespace around one JSON document.                *)
(***************************************************************************)
EXTENDS Naturals, Sequences, FiniteSets, TLC

\* longest chapter list the boundary model answers with
MaxChapters == 2

\* default of --limit
DefaultLimit == 300

(***************************************************************************)
(* JSON values as Python holds them after json.loads                       *)
(***************************************************************************)
Str(s)  == [kind |-> "string", s |-> s]
Num(r)  == [kind |-> "number", repr |-> r]
Null    == [kind |-> "null"]
Arr(xs) == [kind |-> "array", items |-> xs]
Obj(ks, fs) == [kind |-> "object", keys |-> ks, fields |-> fs]

StrList(ss) == Arr([i \in 1..Len(ss) |-> Str(ss[i])])

Chap(name, docs) ==
    Obj(<<"name", "documents">>, [name |-> Str(name), documents |-> StrList(docs)])

\* the characters of the strings the model uses (Python iterates a str by character)
Chars(s) ==
    CASE s = ""    -> <<>>
      [] s = "d0"  -> <<"d", "0">>
      [] s = "abc" -> <<"a", "b", "c">>
      [] OTHER     -> <<s>>

\* exceptions: the Python type and the identifiers its message mentions
Err(type, mentions) == [type |-> type, mentions |-> mentions]
NoError == Err("none", {})

Ok(v)   == [ok |-> TRUE, val |-> v]
Fail(e) == [ok |-> FALSE, err |-> e]

\* iter(v): the elements a for loop or a comprehension draws from v
Iter(v) ==
    CASE v.kind = "array"  -> Ok(v.items)
      [] v.kind = "object" -> Ok([i \in 1..Len(v.keys) |-> Str(v.keys[i])])
      [] v.kind = "string" -> Ok([i \in 1..Len(Chars(v.s)) |-> Str(Chars(v.s)[i])])
      [] OTHER             -> Fail(Err("TypeError", {}))

\* c[key] for a string key
Subscript(c, key) ==
    IF c.kind = "object"
    THEN IF \E i \in 1..Len(c.keys) : c.keys[i] = key
         THEN Ok(c.fields[key])
         ELSE Fail(Err("KeyError", {key}))
    ELSE Fail(Err("TypeError", {}))

\* str(v) as an f-string renders it
Format(v) ==
    CASE v.kind = "string" -> v.s
      [] v.kind = "number" -> v.repr
      [] v.kind = "null"   -> "None"
      [] OTHER             -> "<repr>"

(***************************************************************************)
(* Response text                                                           *)
(***************************************************************************)
\* three backticks
Fence    == [t |-> "fence"]
\* the language tag json
LangJson == [t |-> "lang_json"]
NL       == [t |-> "nl"]
SP       == [t |-> "sp"]
Prose    == [t |-> "prose"]
Json(v)  == [t |-> "jsondoc", v |-> v]

IsWhitespace(tok) == tok.t \in {"nl", "sp"}

\* str.removeprefix
RemovePrefix(text, pre) ==
    IF Len(text) >= Len(pre) /\ \A i \in 1..Len(pre) : text[i].t = pre[i].t
    THEN SubSeq(text, Len(pre) + 1, Len(text))
    ELSE text

\* str.removesuffix
RemoveSuffix(text, suf) ==
    IF Len(text) >= Len(suf)
       /\ \A i \in 1..Len(suf) : text[Len(text) - Len(suf) + i].t = suf[i].t
    THEN SubSeq(text, 1, Len(text) - Len(suf))
    ELSE text

RECURSIVE LStrip(_)
LStrip(text) ==
    IF text # <<>> /\ IsWhitespace(Head(text)) THEN LStrip(Tail(text)) ELSE text

RECURSIVE RStrip(_)
RStrip(text) ==
    IF text # <<>> /\ IsWhitespace(text[Len(text)])
    THEN RStrip(SubSeq(text, 1, Len(text) - 1))
    ELSE text

\* json.loads: whitespace, one document, whitespace; anything else is a decode error
JsonLoads(text) ==
    LET core == RStrip(LStrip(text))
    IN  IF Len(core) = 1 /\ core[1].t = "jsondoc"
        THEN Ok(core[1].v)
        ELSE Fail(Err("JSONDecodeError", {}))

(***************************************************************************)
(* The book: the documents of the EPUB and what trafilatura extracts       *)
(***************************************************************************)
\* hrefs of the documents of the book; "d9" is in no book
Hrefs == {"d0", "d1", "d2", "d3"}

\* trafilatura.extract(html): the text, or None when it finds no content
TrafilaturaExtract(href) ==
    CASE href = "d0" -> [none |-> FALSE, text |-> <<"Hello ">>]
      [] href = "d1" -> [none |-> FALSE, text |-> <<"World">>]
      [] href = "d2" -> [none |-> FALSE, text |-> <<"Done">>]
      [] OTHER       -> [none |-> TRUE,  text |-> <<>>]

\* book.get_item_with_href(ref) is an item (TRUE) or None (FALSE)
GetItemWithHref(ref) == ref.kind = "string" /\ ref.s \in Hrefs

(***************************************************************************)
(* What the boundary model may answer                                      *)
(***************************************************************************)
ChapterPool ==
    { Chap("Ch1", <<"d0", "d1">>),
      Chap("Ch2", <<"d2">>),
      Chap("Ch1", <<"d0", "d1", "d2">>),
      Chap("Ch2", <<"d9">>),
      Chap("Ch3", <<"d3">>) }

ChapterLists ==
    { Arr(f) : f \in UNION { [1..n -> ChapterPool] : n \in 0..MaxChapters } }

OtherJson ==
    { Obj(<<>>, <<>>),
      Chap("Ch1", <<"d0">>),
      Num("5"),
      Str("abc"),
      Str(""),
      Null,
      Arr(<<Chap("Ch1", <<"d0", "d1">>), Obj(<<"name">>, [name |-> Str("Ch2")])>>),
      Arr(<<Chap("Ch1", <<"d0">>), Obj(<<"documents">>, [documents |-> StrList(<<"d2">>)])>>),
      Arr(<<Num("5")>>),
      Arr(<<Obj(<<"name", "documents">>, [name |-> Num("5"), documents |-> StrList(<<"d0">>)])>>),
      Arr(<<Obj(<<"name", "documents">>, [name |-> Str("Ch1"), documents |-> Str("d0")])>>),
      Arr(<<Obj(<<"name", "documents">>, [name |-> Str("Ch1"), documents |-> Str("")])>>),
      Arr(<<Obj(<<"name", "documents">>, [name |-> Str("Ch1"), documents |-> Arr(<<Num("5")>>)])>>) }

Bodies == { <<Json(v)>> : v \in ChapterLists \cup OtherJson } \cup { <<Prose>>, <<>> }

Wrappers == {"bare", "json_tight", "json_lines", "plain_lines", "json_lines_nl"}

Wrap(w, body) ==
    CASE w = "bare"          -> body
      [] w = "json_tight"    -> <<Fence, LangJson>> \o body \o <<Fence>>
      [] w = "json_lines"    -> <<Fence, LangJson, NL>> \o body \o <<NL, Fence>>
      [] w = "plain_lines"   -> <<Fence, NL>> \o body \o <<NL, Fence>>
      [] w = "json_lines_nl" -> <<Fence, LangJson, NL>> \o body \o <<NL, Fence, NL>>

\* what the summarization model may answer
Replies == {"S1", "S2"}

(***************************************************************************)
(* State                                                                   *)
(***************************************************************************)
VARIABLES
    variant,               \* "esum" (src/esum/__main__.py) or "main" (src/main.py)
    output,                \* args.output: "file" when -o is given, "stdout" when None
    pc,                    \* position of main()
    extract_chapters_res,  \* text of the boundary model's response
    chapters,              \* json.loads of it
    chapter_names,
    chapter_contents,
    summarized_chapters,
    summary,
    ci,                    \* position of the comprehension over chapters (content)
    documents,             \* get_content: elements of its documents argument
    di,                    \* get_content: position of its for loop
    join_content,
    si,                    \* position of the summarization loop
    outstanding,           \* model calls sent and not yet answered
    events,                \* calls to the collaborators, in order
    calls,                 \* summarization calls: prompt and reply
    fileOut,               \* what was written to args.output
    stdout,                \* what was printed
    error                  \* the exception that ended the run

vars == <<variant, output, pc, extract_chapters_res, chapters, chapter_names,
          chapter_contents, summarized_chapters, summary, ci, documents, di,
          join_content, si, outstanding, events, calls, fileOut, stdout, error>>

progVars == <<chapters, chapter_names, chapter_contents, summarized_chapters,
              summary, ci, documents, di, join_content, si>>

Event(op, ch, arg) == [op |-> op, ch |-> ch, arg |-> arg]

Init ==
    /\ variant \in {"esum", "main"}
    /\ output \in {"file", "stdout"}
    /\ pc = "read"
    /\ extract_chapters_res = <<>>
    /\ chapters = Null
    /\ chapter_names = <<>>
    /\ chapter_contents = <<>>
    /\ summarized_chapters = <<>>
    /\ summary = <<>>
    /\ ci = 1
    /\ documents = <<>>
    /\ di = 1
    /\ join_content = <<>>
    /\ si = 1
    /\ outstanding = 0
    /\ events = <<>>
    /\ calls = <<>>
    /\ fileOut = <<>>
    /\ stdout = <<>>
    /\ error = NoError

\* an uncaught exception ends the process
Raise(e) ==
    /\ pc' = "failed"
    /\ error' = e

(***************************************************************************)
(* The pure steps of main()                                                *)
(***************************************************************************)
\* esum strips "```json" and "```"; main.py parses the reply as it comes
StripFence(v, text) ==
    IF v = "esum"
    THEN RemoveSuffix(RemovePrefix(text, <<Fence, LangJson>>), <<Fence>>)
    ELSE text

\* [c["name"] for c in items], stopping at the first exception
RECURSIVE NamesOf(_)
NamesOf(items) ==
    IF items = <<>> THEN Ok(<<>>)
    ELSE LET n == Subscript(Head(items), "name")
         IN  IF ~n.ok THEN n
             ELSE LET rest == NamesOf(Tail(items))
                  IN  IF rest.ok THEN Ok(<<n.val>> \o rest.val) ELSE rest

\* faulty variant: an empty chapter list is refused
ChapterNamesOf_RejectEmpty(v) ==
    LET it == Iter(v)
    IN  IF ~it.ok THEN it
        ELSE IF it.val = <<>> THEN Fail(Err("ValueError", {}))
        ELSE NamesOf(it.val)

\* [c["name"] for c in chapters]
ChapterNamesOf(v) ==
    LET it == Iter(v)
    IN  IF it.ok THEN NamesOf(it.val) ELSE it

\* faulty variant: a separator is put between the documents
JoinContent_WithSeparator(join, content) ==
    IF join = <<>> THEN content ELSE join \o <<"\n">> \o content

\* join_content += content
JoinContent(join, content) == join \o content

\* the prompt of one summarization call
SummarizePrompt(limit, c) == [limit |-> limit, chapter |-> c]

Min(a, b) == IF a <= b THEN a ELSE b

\* faulty variant: each section is put in front of the report instead of after it
RECURSIVE Render_NewestFirst(_, _)
Render_NewestFirst(names, sums) ==
    IF names = <<>> \/ sums = <<>> THEN <<>>
    ELSE Render_NewestFirst(Tail(names), Tail(sums))
         \o <<"## ", Format(Head(names)), "\n\n", Head(sums), "\n\n">>

\* for name, content in zip(names, sums): summary += f"## {name}\n\n{content}\n\n"
RECURSIVE Render(_, _)
Render(names, sums) ==
    IF names = <<>> \/ sums = <<>> THEN <<>>
    ELSE <<"## ", Format(Head(names)), "\n\n", Head(sums), "\n\n">>
         \o Render(Tail(names), Tail(sums))

(***************************************************************************)
(* The steps of main()                                                     *)
(***************************************************************************)
\* epub.read_epub, the spine and the navigation document
ReadEpub ==
    /\ pc = "read"
    /\ \E readable \in BOOLEAN :
          IF readable
          THEN pc' = "resolve" /\ UNCHANGED error
          ELSE Raise(Err("EpubException", {}))
    /\ UNCHANGED <<variant, output, extract_chapters_res, progVars, outstanding,
                   events, calls, fileOut, stdout>>

\* the boundary request is sent
ResolveCall ==
    /\ pc = "resolve"
    /\ pc' = "resolve_wait"
    /\ outstanding' = outstanding + 1
    /\ events' = Append(events, Event("generate_call", 0, ""))
    /\ UNCHANGED <<variant, output, extract_chapters_res, progVars, calls,
                   fileOut, stdout, error>>

\* the boundary model answers
ResolveReturn ==
    /\ pc = "resolve_wait"
    /\ \E w \in Wrappers, b \in Bodies : extract_chapters_res' = Wrap(w, b)
    /\ pc' = "parse"
    /\ outstanding' = outstanding - 1
    /\ events' = Append(events, Event("generate_return", 0, ""))
    /\ UNCHANGED <<variant, output, progVars, calls, fileOut, stdout, error>>

\* the boundary request fails
ResolveRaise ==
    /\ pc = "resolve_wait"
    /\ Raise(Err("ModelCallFailure", {}))
    /\ outstanding' = outstanding - 1
    /\ events' = Append(events, Event("generate_raise", 0, ""))
    /\ UNCHANGED <<variant, output, extract_chapters_res, progVars, calls,
                   fileOut, stdout>>

\* strip the fence and json.loads
ParseChapters ==
    /\ pc = "parse"
    /\ LET r == JsonLoads(StripFence(variant, extract_chapters_res))
       IN  IF r.ok
           THEN chapters' = r.val /\ pc' = "names" /\ UNCHANGED error
           ELSE Raise(r.err) /\ UNCHANGED chapters
    /\ UNCHANGED <<variant, output, extract_chapters_res, chapter_names,
                   chapter_contents, summarized_chapters, summary, ci, documents,
                   di, join_content, si, outstanding, events, calls, fileOut, stdout>>

\* chapter_names = [c["name"] for c in chapters]
ChapterNames ==
    /\ pc = "names"
    /\ LET r == ChapterNamesOf(chapters)
       IN  IF r.ok
           THEN chapter_names' = r.val /\ pc' = "contents" /\ UNCHANGED error
           ELSE Raise(r.err) /\ UNCHANGED chapter_names
    /\ UNCHANGED <<variant, output, extract_chapters_res, chapters,
                   chapter_contents, summarized_chapters, summary, ci, documents,
                   di, join_content, si, outstanding, events, calls, fileOut, stdout>>

\* the comprehension over chapters takes its next c and calls get_content
GetContentCall ==
    /\ pc = "contents"
    /\ ci <= Len(Iter(chapters).val)
    /\ LET d  == Subscript(Iter(chapters).val[ci], "documents")
           it == IF d.ok THEN Iter(d.val) ELSE d
       IN  IF it.ok
           THEN /\ documents' = it.val
                /\ di' = 1
                /\ join_content' = <<>>
                /\ pc' = "get_content"
                /\ UNCHANGED error
           ELSE /\ Raise(it.err)
                /\ UNCHANGED <<documents, di, join_content>>
    /\ UNCHANGED <<variant, output, extract_chapters_res, chapters, chapter_names,
                   chapter_contents, summarized_chapters, summary, ci, si,
                   outstanding, events, calls, fileOut, stdout>>

\* one turn of get_content's loop: look the document up, extract, append
GetContentStep ==
    /\ pc = "get_content"
    /\ di <= Len(documents)
    /\ LET ref    == documents[di]
           lookup == Event("get_item_with_href", ci, Format(ref))
       IN  IF ~GetItemWithHref(ref)
           THEN /\ Raise(Err("AttributeError", {"NoneType", "get_content"}))
                /\ events' = Append(events, lookup)
                /\ UNCHANGED <<di, join_content>>
           ELSE LET content == TrafilaturaExtract(ref.s)
                IN  /\ events' = events \o <<lookup, Event("extract", ci, ref.s)>>
                    /\ IF content.none
                       THEN /\ Raise(Err("TypeError", {"str", "NoneType"}))
                            /\ UNCHANGED <<di, join_content>>
                       ELSE /\ join_content' = JoinContent(join_content, content.text)
                            /\ di' = di + 1
                            /\ UNCHANGED <<pc, error>>
    /\ UNCHANGED <<variant, output, extract_chapters_res, chapters, chapter_names,
                   chapter_contents, summarized_chapters, summary, ci, documents,
                   si, outstanding, calls, fileOut, stdout>>

\* faulty variant: each chapter is summarized as soon as its content is assembled
GetContentReturn_ThenSummarize ==
    /\ pc = "get_content"
    /\ di > Len(documents)
    /\ chapter_contents' = Append(chapter_contents, join_content)
    /\ ci' = ci + 1
    /\ pc' = "summarize"
    /\ UNCHANGED <<variant, output, extract_chapters_res, chapters, chapter_names,
                   summarized_chapters, summary, documents, di, join_content, si,
                   outstanding, events, calls, fileOut, stdout, error>>

\* get_content returns join_content
GetContentReturn ==
    /\ pc = "get_content"
    /\ di > Len(documents)
    /\ chapter_contents' = Append(chapter_contents, join_content)
    /\ ci' = ci + 1
    /\ pc' = "contents"
    /\ UNCHANGED <<variant, output, extract_chapters_res, chapters, chapter_names,
                   summarized_chapters, summary, documents, di, join_content, si,
                   outstanding, events, calls, fileOut, stdout, error>>

\* the comprehension is exhausted: summarized_chapters = []
ContentsDone ==
    /\ pc = "contents"
    /\ ci > Len(Iter(chapters).val)
    /\ pc' = "summarize"
    /\ UNCHANGED <<variant, output, extract_chapters_res, progVars, outstanding,
                   events, calls, fileOut, stdout, error>>

\* the summarization request of the next (name, c) pair is sent
SummarizeCall ==
    /\ pc = "summarize"
    /\ si <= Min(Len(chapter_names), Len(chapter_contents))
    /\ calls' = Append(calls, [ch |-> si,
                               prompt |-> SummarizePrompt(DefaultLimit, chapter_contents[si]),
                               status |-> "pending",
                               reply |-> ""])
    /\ outstanding' = outstanding + 1
    /\ events' = Append(events, Event("generate_call", si, ""))
    /\ pc' = "summ_wait"
    /\ UNCHANGED <<variant, output, extract_chapters_res, progVars, fileOut,
                   stdout, error>>

\* the summarization model answers: summarized_chapters.append(res.text)
SummarizeReturn ==
    /\ pc = "summ_wait"
    /\ \E r \in Replies :
          /\ summarized_chapters' = Append(summarized_chapters, r)
          /\ calls' = [calls EXCEPT ![Len(calls)].status = "returned",
                                    ![Len(calls)].reply = r]
    /\ si' = si + 1
    /\ outstanding' = outstanding - 1
    /\ events' = Append(events, Event("generate_return", si, ""))
    /\ pc' = "summarize"
    /\ UNCHANGED <<variant, output, extract_chapters_res, chapters, chapter_names,
                   chapter_contents, summary, ci, documents, di, join_content,
                   fileOut, stdout, error>>

\* faulty variant: the chapters summarized so far are written when a call fails
SummarizeRaise_PartialReport ==
    /\ pc = "summ_wait"
    /\ Raise(Err("ModelCallFailure", {}))
    /\ calls' = [calls EXCEPT ![Len(calls)].status = "raised"]
    /\ outstanding' = outstanding - 1
    /\ events' = Append(events, Event("generate_raise", si, ""))
    /\ fileOut' = Append(fileOut, Render(chapter_names, summarized_chapters))
    /\ UNCHANGED <<variant, output, extract_chapters_res, progVars, stdout>>

\* faulty variant: a failed call is sent again
SummarizeRaise_Retry ==
    /\ pc = "summ_wait"
    /\ pc' = "summarize"
    /\ calls' = [calls EXCEPT ![Len(calls)].status = "raised"]
    /\ outstanding' = outstanding - 1
    /\ events' = Append(events, Event("generate_raise", si, ""))
    /\ UNCHANGED <<variant, output, extract_chapters_res, progVars, fileOut,
                   stdout, error>>

\* the summarization request fails
SummarizeRaise ==
    /\ pc = "summ_wait"
    /\ Raise(Err("ModelCallFailure", {}))
    /\ calls' = [calls EXCEPT ![Len(calls)].status = "raised"]
    /\ outstanding' = outstanding - 1
    /\ events' = Append(events, Event("generate_raise", si, ""))
    /\ UNCHANGED <<variant, output, extract_chapters_res, progVars, fileOut, stdout>>

\* the loop is exhausted: the report is built
AssembleReport ==
    /\ pc = "summarize"
    /\ si > Min(Len(chapter_names), Len(chapter_contents))
    /\ summary' = Render(chapter_names, summarized_chapters)
    /\ pc' = "emit"
    /\ UNCHANGED <<variant, output, extract_chapters_res, chapters, chapter_names,
                   chapter_contents, summarized_chapters, ci, documents, di,
                   join_content, si, outstanding, events, calls, fileOut, stdout,
                   error>>

\* with open(args.output, "w") as f: f.write(summary)
WriteFile ==
    /\ pc = "emit"
    /\ output = "file"
    /\ \E writable \in BOOLEAN :
          IF writable
          THEN /\ fileOut' = Append(fileOut, summary)
               /\ pc' = "done"
               /\ UNCHANGED error
          ELSE /\ Raise(Err("OSError", {}))
               /\ UNCHANGED fileOut
    /\ UNCHANGED <<variant, output, extract_chapters_res, progVars, outstanding,
                   events, calls, stdout>>

\* the three prints
PrintReport ==
    /\ pc = "emit"
    /\ output = "stdout"
    /\ stdout' = stdout \o <<<<"--------------------">>, <<"# Summary">>, summary>>
    /\ pc' = "done"
    /\ UNCHANGED <<variant, output, extract_chapters_res, progVars, outstanding,
                   events, calls, fileOut, error>>

Next ==
    \/ ReadEpub
    \/ ResolveCall
    \/ ResolveReturn
    \/ ResolveRaise
    \/ ParseChapters
    \/ ChapterNames
    \/ GetContentCall
    \/ GetContentStep
    \/ GetContentReturn
    \/ ContentsDone
    \/ SummarizeCall
    \/ SummarizeReturn
    \/ SummarizeRaise
    \/ AssembleReport
    \/ WriteFile
    \/ PrintReport

Spec == Init /\ [][Next]_vars

(***************************************************************************)
(* Vocabulary of the properties                                            *)
(***************************************************************************)
\* a structured array of {name, documents} records
IsChapterRecord(c) ==
    /\ c.kind = "object"
    /\ \E i \in 1..Len(c.keys) : c.keys[i] = "name"
    /\ \E i \in 1..Len(c.keys) : c.keys[i] = "documents"
    /\ c.fields["name"].kind = "string"
    /\ c.fields["documents"].kind = "array"
    /\ \A j \in 1..Len(c.fields["documents"].items) :
          c.fields["documents"].items[j].kind = "string"

IsChapterArray(v) ==
    /\ v.kind = "array"
    /\ \A i \in 1..Len(v.items) : IsChapterRecord(v.items[i])

IsWrapperToken(tok) == tok.t \in {"fence", "lang_json", "nl", "sp"}

\* the response with the fence markers and the whitespace around its body removed
Unfenced(text) == SelectSeq(text, LAMBDA tok : ~IsWrapperToken(tok))

IsFenced(text) == text # <<>> /\ Head(text).t = "fence"

\* the response carries a structured array of {name, documents} records
ResponseIsChapterArray ==
    LET body == Unfenced(extract_chapters_res)
    IN  /\ Len(body) = 1
        /\ body[1].t = "jsondoc"
        /\ IsChapterArray(body[1].v)

ResponseReceived == \E i \in 1..Len(events) : events[i] = Event("generate_return", 0, "")

ParseAttempted == ResponseReceived /\ pc # "parse"

Emitted == fileOut # <<>> \/ stdout # <<>>

ExtractorEvents ==
    { i \in 1..Len(events) : events[i].op \in {"get_item_with_href", "extract"} }

SummarizeCallEvents ==
    { i \in 1..Len(events) : events[i].op = "generate_call" /\ events[i].ch >= 1 }

ModelCallEvents == { i \in 1..Len(events) : events[i].op = "generate_call" }

\* the report as it reached the file or the terminal
EmittedReport == IF output = "file" THEN fileOut[1] ELSE stdout[3]

\* the names after the heading markers of a report
RECURSIVE Headings(_)
Headings(report) ==
    IF Len(report) < 2 THEN <<>>
    ELSE IF Head(report) = "## "
         THEN <<report[2]>> \o Headings(Tail(Tail(report)))
         ELSE Headings(Tail(report))

ResolvedName(i) == chapters.items[i].fields["name"].s
ResolvedDocs(i) ==
    [j \in 1..Len(chapters.items[i].fields["documents"].items) |->
        chapters.items[i].fields["documents"].items[j].s]

\* concatenation of the single-document assemblies, in list order
RECURSIVE ConcatSingles(_)
ConcatSingles(docs) ==
    IF docs = <<>> THEN <<>>
    ELSE TrafilaturaExtract(Head(docs)).text \o ConcatSingles(Tail(docs))

\* heading and reply of chapters i..n, in order
RECURSIVE ExpectedReport(_, _)
ExpectedReport(i, n) ==
    IF i > n THEN <<>>
    ELSE <<"## ", ResolvedName(i), "\n\n", calls[i].reply, "\n\n">>
         \o ExpectedReport(i + 1, n)

(***************************************************************************)
(* Properties                                                              *)
(***************************************************************************)

\* C1: nothing reaches the file or the terminal unless the run ends well, and
\* a run that ends well has emitted the whole report exactly once, after the
\* summary of the last chapter was obtained.
C1_AllOrNothing ==
    /\ pc # "done" => fileOut = <<>> /\ stdout = <<>>
    /\ pc = "done" =>
          /\ output = "file" => fileOut = <<summary>> /\ stdout = <<>>
          /\ output = "stdout" =>
                /\ stdout = <<<<"--------------------">>, <<"# Summary">>, summary>>
                /\ fileOut = <<>>
          /\ Len(summarized_chapters) = Len(Iter(chapters).val)
          /\ \A i \in 1..Len(calls) : calls[i].status = "returned"
          /\ Len(Headings(summary)) = Len(Iter(chapters).val)

\* a run that failed at a summarization call after a summary had been obtained
C1_Witness ==
    /\ pc = "failed"
    /\ error.type = "ModelCallFailure"
    /\ Len(summarized_chapters) >= 1
    /\ ~Emitted

\* C2: a response that is not a structured array of {name, documents} records
\* never leads to a finished run or to a report.
C2_MalformedResponseRejected ==
    (ResponseReceived /\ ~ResponseIsChapterArray) => (pc # "done" /\ ~Emitted)

\* C3: a fence-wrapped valid chapter array parses, to the chapter list that
\* the array itself denotes.
C3_FencedResponseParses ==
    (ParseAttempted /\ IsFenced(extract_chapters_res) /\ ResponseIsChapterArray) =>
        /\ error.type # "JSONDecodeError"
        /\ chapters = Unfenced(extract_chapters_res)[1].v

\* C4: after a response that is not an array of well-formed records, no
\* document lookup, no extraction and no summarization call is ever made.
C4_MalformedAbortsBeforeChapters ==
    (ResponseReceived /\ ~ResponseIsChapterArray) =>
        /\ ExtractorEvents = {}
        /\ SummarizeCallEvents = {}

\* C5: a lookup of an identifier absent from the book ends the run with a
\* DocumentNotFound error that names the identifier and the owning chapter.
C5_DocumentNotFoundNamed ==
    \A i \in 1..Len(events) :
        ( /\ events[i].op = "get_item_with_href"
          /\ events[i].arg \notin Hrefs
          /\ IsChapterArray(chapters) ) =>
            /\ pc = "failed"
            /\ error.type = "DocumentNotFound"
            /\ events[i].arg \in error.mentions
            /\ ResolvedName(events[i].ch) \in error.mentions

\* C6: for a non-empty well-formed chapter list, the headings of the report
\* of a successful run are the chapter names, one per chapter, in resolved order.
C6_HeadingsInResolvedOrder ==
    (pc = "done" /\ IsChapterArray(chapters) /\ chapters.items # <<>>) =>
        /\ Len(Headings(EmittedReport)) = Len(chapters.items)
        /\ \A i \in 1..Len(chapters.items) :
              Headings(EmittedReport)[i] = ResolvedName(i)

\* a successful run over two chapters of different names
C6_Witness ==
    /\ pc = "done"
    /\ IsChapterArray(chapters)
    /\ Len(chapters.items) = 2
    /\ ResolvedName(1) # ResolvedName(2)
    /\ Headings(EmittedReport) = <<ResolvedName(1), ResolvedName(2)>>

\* C7: a successful run over n chapters makes exactly n summarization calls,
\* the i-th with the prompt built from the separator-free concatenation of the
\* texts of chapter i's documents, and the report is, in order, each chapter's
\* heading followed by the reply to that chapter's call.
C7_ReportPairsChaptersWithReplies ==
    (pc = "done" /\ IsChapterArray(chapters)) =>
        /\ Len(calls) = Len(chapters.items)
        /\ Cardinality(SummarizeCallEvents) = Len(chapters.items)
        /\ \A i \in 1..Len(calls) :
              /\ calls[i].ch = i
              /\ calls[i].status = "returned"
              /\ calls[i].prompt = SummarizePrompt(DefaultLimit, ConcatSingles(ResolvedDocs(i)))
        /\ EmittedReport = ExpectedReport(1, Len(chapters.items))

\* a successful run over two chapters, one of several documents, whose replies differ
C7_Witness ==
    /\ pc = "done"
    /\ IsChapterArray(chapters)
    /\ Len(chapters.items) = 2
    /\ \E i \in 1..2 : Len(ResolvedDocs(i)) >= 2
    /\ Len(calls) = 2
    /\ calls[1].reply # calls[2].reply
    /\ calls[1].prompt # calls[2].prompt

\* C8: with an empty chapter list the run makes no lookup, no extraction and
\* no summarization call, fails at no step of the pipeline, and its report is
\* the empty string.
C8_EmptyChapterList ==
    (ParseAttempted /\ chapters = Arr(<<>>)) =>
        /\ ExtractorEvents = {}
        /\ calls = <<>>
        /\ Cardinality(ModelCallEvents) = 1
        /\ pc = "failed" => error.type = "OSError"
        /\ pc \in {"emit", "done"} => summary = <<>>
        /\ pc = "done" => EmittedReport = <<>>

\* a successful run over the empty chapter list
C8_Witness ==
    /\ pc = "done"
    /\ chapters = Arr(<<>>)
    /\ EmittedReport = <<>>

\* C9: a failed summarization call is the last call of the run: it is not
\* repeated, no later chapter is summarized, the run has failed and nothing
\* was emitted.
C9_NoRetryNoFallback ==
    \A i \in 1..Len(calls) :
        /\ calls[i].ch = i
        /\ calls[i].status = "raised" =>
              /\ i = Len(calls)
              /\ pc = "failed"
              /\ error.type = "ModelCallFailure"
              /\ Len(summarized_chapters) = i - 1
              /\ ~Emitted

\* the call of the first of two chapters failed
C9_Witness ==
    /\ IsChapterArray(chapters)
    /\ Len(chapters.items) = 2
    /\ Len(calls) = 1
    /\ calls[1].status = "raised"
    /\ pc = "failed"

\* C10 as stated: the documents of chapter k > 1 are looked up and extracted
\* only after the summarization call of chapter k - 1 has returned.
C10_AssemblyInterleavedWithSummaries ==
    \A i \in ExtractorEvents :
        events[i].ch > 1 =>
            \E j \in 1..(i - 1) :
                events[j] = Event("generate_return", events[i].ch - 1, "")

\* C10 amended: the boundary call comes first; every chapter's content is
\* assembled, in resolved order, before the first summarization call; the
\* summarization calls are made in chapter order, each after the previous one
\* has returned; at most one model call is outstanding.
C10_AssembleAllThenSummarize ==
    /\ outstanding <= 1
    /\ events # <<>> => events[1] = Event("generate_call", 0, "")
    /\ \A i \in ExtractorEvents :
          /\ \E j \in 1..(i - 1) : events[j] = Event("generate_return", 0, "")
          /\ \A j \in 1..(i - 1) :
                /\ ~(events[j].op = "generate_call" /\ events[j].ch >= 1)
                /\ events[j].op \in {"get_item_with_href", "extract"} =>
                      events[j].ch <= events[i].ch
    /\ calls # <<>> => Len(chapter_contents) = Len(Iter(chapters).val)
    /\ \A i \in SummarizeCallEvents :
          /\ events[i - 1].op # "generate_call"
          /\ events[i].ch > 1 =>
                events[i - 1] = Event("generate_return", events[i].ch - 1, "")
          /\ events[i].ch = 1 =>
                events[i - 1].op \in {"generate_return", "get_item_with_href", "extract"}

\* both chapters were assembled before the first summarization call, and both calls returned
C10_Witness ==
    /\ pc = "done"
    /\ Len(calls) = 2
    /\ \E i \in ExtractorEvents :
          /\ events[i].ch = 2
          /\ \A j \in 1..(i - 1) : events[j] # Event("generate_return", 1, "")

====
